---- MODULE Spec2Model ----
(***************************************************************************)
(* Model of the Currency Strength Meter page of trading_dashboard.py:      *)
(* get_json (the fetcher) and show_currency_meter (validation of the       *)
(* payload, pandas frame construction, basket filter, per-row scoring,     *)
(* USD pivot, ranking, rendering).                                         *)
(*                                                                         *)
(* Numbers are integers (a change of n stands for n units of percentage).  *)
(* A cell of the payload or of the frame is a record [t, v]:               *)
(*   t = "num"     a number v                                              *)
(*   t = "none"    Python None (JSON null)                                 *)
(*   t = "nan"     float NaN (what pandas stores for a hole in a float     *)
(*                 column)                                                 *)
(*   t = "missing" the key is absent from the JSON record                  *)
(* A symbol is the pair <<first three letters, last three letters>>, so    *)
(* that sym[:3] and sym[3:] are computed, not looked up.                   *)
(***************************************************************************)
EXTENDS Integers, Sequences, FiniteSets, TLC

VARIABLES pc, ui, data, df, strength_scores, index, df_strength, exc

vars == <<pc, ui, data, df, strength_scores, index, df_strength, exc>>

(* ---------------- bounds of the explored inputs ---------------- *)
MaxLen == 2
MaxChange == 1

(* ---------------- cells ---------------- *)
Num(n) == [t |-> "num", v |-> n]
None == [t |-> "none", v |-> 0]
NaN == [t |-> "nan", v |-> 0]
Missing == [t |-> "missing", v |-> 0]

NoSymbol == <<>>

(* ---------------- program constants ---------------- *)
majors == { <<"EUR", "USD">>, <<"GBP", "USD">>, <<"USD", "JPY">>,
            <<"USD", "CHF">>, <<"AUD", "USD">>, <<"USD", "CAD">>,
            <<"NZD", "USD">> }

base_pairs == { <<"EUR", "USD">>, <<"GBP", "USD">>, <<"AUD", "USD">>,
                <<"NZD", "USD">> }

quote_pairs == { <<"USD", "JPY">>, <<"USD", "CHF">>, <<"USD", "CAD">> }

(* ---------------- what the fetcher can return ---------------- *)
InputSymbols == majors \cup { <<"BTC", "USD">>, NoSymbol }

InputChanges == { Num(n) : n \in (-MaxChange)..MaxChange } \cup { None, Missing }

Records == [symbol : InputSymbols, changesPercentage : InputChanges]

RECURSIVE SeqsUpTo(_, _)
SeqsUpTo(S, n) ==
    IF n = 0 THEN { <<>> }
    ELSE LET shorter == SeqsUpTo(S, n - 1)
         IN shorter \cup { Append(s, x) : s \in { q \in shorter : Len(q) = n - 1 }, x \in S }

JsonList(recs) == [kind |-> "list", recs |-> recs, err |-> FALSE]
JsonDict(err) == [kind |-> "dict", recs |-> <<>>, err |-> err]
JsonScalar == [kind |-> "scalar", recs |-> <<>>, err |-> FALSE]
Unset == [kind |-> "unset", recs |-> <<>>, err |-> FALSE]
ConnectionFailure == [kind |-> "exception", recs |-> <<>>, err |-> FALSE]

Responses == { JsonList(r) : r \in SeqsUpTo(Records, MaxLen) }
             \cup { JsonDict(TRUE), JsonDict(FALSE), JsonScalar, ConnectionFailure }

(* ---------------- pandas.DataFrame(data) ---------------- *)
HasColumn(recs, col) ==
    IF col = "symbol"
    THEN \E i \in 1..Len(recs) : recs[i].symbol # NoSymbol
    ELSE \E i \in 1..Len(recs) : recs[i].changesPercentage.t # "missing"

\* The column is inferred as float64 when it holds a number or a hole
\* (a record without the key is filled with NaN); a column that holds
\* nothing but None stays an object column.
IsFloatColumn(recs) ==
    \E i \in 1..Len(recs) : recs[i].changesPercentage.t \in {"num", "missing"}

ConvertCell(cell, isFloat) ==
    IF cell.t = "num" THEN cell
    ELSE IF isFloat THEN NaN
    ELSE cell

DataFrame(recs) ==
    [columns |-> { c \in {"symbol", "changesPercentage"} : HasColumn(recs, c) },
     rows |-> [i \in 1..Len(recs) |->
                 [symbol |-> recs[i].symbol,
                  changesPercentage |->
                      ConvertCell(recs[i].changesPercentage, IsFloatColumn(recs))]]]

EmptyFrame == [columns |-> {}, rows |-> <<>>]

(* ---------------- df[df['symbol'].isin(majors)] ---------------- *)
RECURSIVE SelectRows(_, _)
SelectRows(rows, S) ==
    IF rows = <<>> THEN <<>>
    ELSE IF Head(rows).symbol \in S
         THEN <<Head(rows)>> \o SelectRows(Tail(rows), S)
         ELSE SelectRows(Tail(rows), S)

\* the frame passed on without the isin filter
FilterMajors_KeepAll(frame) == frame

FilterMajors(frame) ==
    [columns |-> frame.columns, rows |-> SelectRows(frame.rows, majors)]

(* ---------------- the strength_scores dict ---------------- *)
HasKey(d, k) == \E i \in 1..Len(d) : d[i].Moneda = k

\* a dict that keeps every assignment as a new entry
DictSet_AlwaysAppend(d, k, v) == Append(d, [Moneda |-> k, Fuerza |-> v])

\* d[k] = v on an insertion-ordered dict
DictSet(d, k, v) ==
    IF HasKey(d, k)
    THEN [i \in 1..Len(d) |-> IF d[i].Moneda = k THEN [Moneda |-> k, Fuerza |-> v] ELSE d[i]]
    ELSE Append(d, [Moneda |-> k, Fuerza |-> v])

Neg(cell) == IF cell.t = "num" THEN Num(0 - cell.v) ELSE cell

\* change = row['changesPercentage']; if change is None: change = 0.0
Coerce(cell) == IF cell.t = "none" THEN Num(0) ELSE cell

\* the loop body without the sign flip of the USD-based pairs
ScoreRow_NoNegate(scores, row) ==
    LET sym == row.symbol
        change == Coerce(row.changesPercentage)
    IN IF sym \in base_pairs THEN DictSet(scores, sym[1], change)
       ELSE IF sym \in quote_pairs THEN DictSet(scores, sym[2], change)
       ELSE scores

\* one iteration of the loop body, lines 278-290
ScoreRow(scores, row) ==
    LET sym == row.symbol
        change == Coerce(row.changesPercentage)
    IN IF sym \in base_pairs THEN DictSet(scores, sym[1], change)
       ELSE IF sym \in quote_pairs THEN DictSet(scores, sym[2], Neg(change))
       ELSE scores

Pivot(scores) == DictSet(scores, "USD", Num(0))

(* ---------------- sort_values(by='Fuerza', ascending=False) ------------- *)
\* a goes strictly before b: NaN goes last
Precedes(a, b) ==
    \/ a.t = "num" /\ b.t = "nan"
    \/ a.t = "num" /\ b.t = "num" /\ a.v > b.v

InsertRow(sorted, x) ==
    LET before == { i \in 1..Len(sorted) : Precedes(x.Fuerza, sorted[i].Fuerza) }
        pos == IF before = {} THEN Len(sorted) + 1
               ELSE CHOOSE i \in before : \A j \in before : i <= j
    IN SubSeq(sorted, 1, pos - 1) \o <<x>> \o SubSeq(sorted, pos, Len(sorted))

RECURSIVE SortValues(_)
SortValues(d) ==
    IF d = <<>> THEN <<>>
    ELSE InsertRow(SortValues(SubSeq(d, 1, Len(d) - 1)), d[Len(d)])

(* ---------------- the payload test of lines 264 and 313 ---------------- *)
\* the test without the length check
IsValidList_AnyList(d) == d.kind = "list"

IsValidList(d) == d.kind = "list" /\ Len(d.recs) > 0

IsApiError(d) == d.kind = "dict" /\ d.err

(* ---------------- state machine ---------------- *)
Init ==
    /\ pc = "start"
    /\ ui = <<>>
    /\ data = Unset
    /\ df = EmptyFrame
    /\ strength_scores = <<>>
    /\ index = 0
    /\ df_strength = <<>>
    /\ exc = "none"

\* lines 253-257: header and info box
Enter ==
    /\ pc = "start"
    /\ ui' = <<"header", "info">>
    /\ pc' = "fetch"
    /\ UNCHANGED <<data, df, strength_scores, index, df_strength, exc>>

\* lines 17-34 and 260: a connection failure is reported and mapped to []
get_json ==
    /\ pc = "fetch"
    /\ \E resp \in Responses :
         IF resp = ConnectionFailure
         THEN /\ ui' = Append(ui, "error_conexion")
              /\ data' = JsonList(<<>>)
         ELSE /\ ui' = ui
              /\ data' = resp
    /\ pc' = "check"
    /\ UNCHANGED <<df, strength_scores, index, df_strength, exc>>

\* lines 264, 313-318
CheckPayload ==
    /\ pc = "check"
    /\ IF IsValidList(data)
       THEN /\ pc' = "frame"
            /\ ui' = ui
       ELSE IF IsApiError(data)
       THEN /\ pc' = "done"
            /\ ui' = Append(ui, "error_api")
       ELSE /\ pc' = "done"
            /\ ui' = Append(ui, "error_no_data")
    /\ UNCHANGED <<data, df, strength_scores, index, df_strength, exc>>

\* line 265
BuildFrame ==
    /\ pc = "frame"
    /\ df' = DataFrame(data.recs)
    /\ pc' = "filter"
    /\ UNCHANGED <<ui, data, strength_scores, index, df_strength, exc>>

\* lines 268-274: df['symbol'] raises KeyError when no record has the key
Filter ==
    /\ pc = "filter"
    /\ IF "symbol" \notin df.columns
       THEN /\ pc' = "crashed"
            /\ exc' = "KeyError_symbol"
            /\ UNCHANGED <<ui, df>>
       ELSE /\ df' = FilterMajors(df)
            /\ exc' = exc
            /\ IF df'.rows = <<>>
               THEN /\ ui' = Append(ui, "warning_no_data")
                    /\ pc' = "done"
               ELSE /\ ui' = ui
                    /\ pc' = "loop"
    /\ index' = 1
    /\ UNCHANGED <<data, strength_scores, df_strength>>

\* lines 277-290: one row of df.iterrows(); row['changesPercentage'] raises
\* KeyError when no record has the key
LoopRow ==
    /\ pc = "loop"
    /\ index <= Len(df.rows)
    /\ IF "changesPercentage" \notin df.columns
       THEN /\ pc' = "crashed"
            /\ exc' = "KeyError_changesPercentage"
            /\ UNCHANGED <<strength_scores, index>>
       ELSE /\ strength_scores' = ScoreRow(strength_scores, df.rows[index])
            /\ index' = index + 1
            /\ pc' = IF index + 1 > Len(df.rows) THEN "pivot" ELSE "loop"
            /\ exc' = exc
    /\ UNCHANGED <<ui, data, df, df_strength>>

\* line 292
SetPivot ==
    /\ pc = "pivot"
    /\ strength_scores' = Pivot(strength_scores)
    /\ pc' = "sort"
    /\ UNCHANGED <<ui, data, df, index, df_strength, exc>>

\* lines 295-296
Rank ==
    /\ pc = "sort"
    /\ df_strength' = SortValues(strength_scores)
    /\ pc' = "render"
    /\ UNCHANGED <<ui, data, df, strength_scores, index, exc>>

\* lines 299-310
Render ==
    /\ pc = "render"
    /\ ui' = ui \o <<"chart", "table">>
    /\ pc' = "done"
    /\ UNCHANGED <<data, df, strength_scores, index, df_strength, exc>>

Next ==
    \/ Enter
    \/ get_json
    \/ CheckPayload
    \/ BuildFrame
    \/ Filter
    \/ LoopRow
    \/ SetPivot
    \/ Rank
    \/ Render

Spec == Init /\ [][Next]_vars

(* ---------------- the whole run as a function of the payload ------------- *)
RECURSIVE ScoreLoop(_, _)
ScoreLoop(rows, scores) ==
    IF rows = <<>> THEN scores
    ELSE ScoreLoop(Tail(rows), ScoreRow(scores, Head(rows)))

show_currency_meter(d) ==
    IF ~IsValidList(d)
    THEN [outcome |-> IF IsApiError(d) THEN "error_api" ELSE "error_no_data", table |-> <<>>]
    ELSE LET frame == DataFrame(d.recs)
         IN IF "symbol" \notin frame.columns
            THEN [outcome |-> "KeyError_symbol", table |-> <<>>]
            ELSE LET kept == FilterMajors(frame)
                 IN IF kept.rows = <<>>
                    THEN [outcome |-> "warning_no_data", table |-> <<>>]
                    ELSE IF "changesPercentage" \notin kept.columns
                    THEN [outcome |-> "KeyError_changesPercentage", table |-> <<>>]
                    ELSE [outcome |-> "table",
                          table |-> SortValues(Pivot(ScoreLoop(kept.rows, <<>>)))]

(***************************************************************************)
(* Vocabulary of the properties, written from the specification's terms.   *)
(***************************************************************************)
Basket == { <<"EUR", "USD">>, <<"GBP", "USD">>, <<"USD", "JPY">>, <<"USD", "CHF">>,
            <<"AUD", "USD">>, <<"USD", "CAD">>, <<"NZD", "USD">> }

XxxUsd == { <<"EUR", "USD">>, <<"GBP", "USD">>, <<"AUD", "USD">>, <<"NZD", "USD">> }

UsdYyy == { <<"USD", "JPY">>, <<"USD", "CHF">>, <<"USD", "CAD">> }

CurrencyOf(sym) == IF sym[1] = "USD" THEN sym[2] ELSE sym[1]

Finished == pc \in {"done", "crashed"}

Shown(what) == \E i \in 1..Len(ui) : ui[i] = what

TableShown == pc = "done" /\ Shown("table")

NothingComputed ==
    /\ strength_scores = <<>>
    /\ df_strength = <<>>
    /\ ~Shown("chart")
    /\ ~Shown("table")

Fetched == pc \notin {"start", "fetch"}

IsQuoteList == Fetched /\ data.kind = "list" /\ Len(data.recs) > 0

Quote(i) == data.recs[i]

IsNumeric(i) == Quote(i).changesPercentage.t = "num"

IsNull(i) == Quote(i).changesPercentage.t \in {"none", "missing"}

\* the last quote of its symbol in the list
IsLastOfSymbol(i) == \A j \in (i + 1)..Len(data.recs) : Quote(j).symbol # Quote(i).symbol

HasBasketQuote == \E i \in 1..Len(data.recs) : Quote(i).symbol \in Basket

RowsOf(table, cur) == { i \in 1..Len(table) : table[i].Moneda = cur }

\* the table has exactly one row for cur and its strength is the number n
StrengthIs(table, cur, n) ==
    /\ Cardinality(RowsOf(table, cur)) = 1
    /\ \A i \in RowsOf(table, cur) : table[i].Fuerza = [t |-> "num", v |-> n]

\* a >= b as floats compare: false as soon as one side is NaN
Geq(a, b) == a.t = "num" /\ b.t = "num" /\ a.v >= b.v

Abs(n) == IF n < 0 THEN 0 - n ELSE n

RECURSIVE SumAbsStrengths(_)
SumAbsStrengths(table) ==
    IF table = <<>> THEN 0
    ELSE Abs(Head(table).Fuerza.v) + SumAbsStrengths(Tail(table))

RECURSIVE SumAbsChanges(_, _)
SumAbsChanges(recs, keep) ==
    IF recs = <<>> THEN 0
    ELSE (IF Len(recs) \in keep THEN Abs(recs[Len(recs)].changesPercentage.v) ELSE 0)
         + SumAbsChanges(SubSeq(recs, 1, Len(recs) - 1), keep)

OnlyNumericBasketQuotes ==
    /\ IsQuoteList
    /\ \A i \in 1..Len(data.recs) : Quote(i).symbol \in Basket /\ IsNumeric(i)

RECURSIVE RemoveNonBasket(_)
RemoveNonBasket(recs) ==
    IF recs = <<>> THEN <<>>
    ELSE IF Head(recs).symbol \in Basket
         THEN <<Head(recs)>> \o RemoveNonBasket(Tail(recs))
         ELSE RemoveNonBasket(Tail(recs))

(* ---------------- C1 ---------------- *)
\* C1 as stated: every quote of an XXXUSD pair with change c gives XXX the
\* strength c, every quote of a USDYYY pair with change c gives YYY the
\* strength -c. Refuted by a symbol quoted twice with different changes.
C1_EveryQuoteOriented ==
    (pc = "done" /\ IsQuoteList) =>
        \A i \in 1..Len(data.recs) :
            /\ (Quote(i).symbol \in XxxUsd /\ IsNumeric(i)) =>
                   StrengthIs(df_strength, Quote(i).symbol[1], Quote(i).changesPercentage.v)
            /\ (Quote(i).symbol \in UsdYyy /\ IsNumeric(i)) =>
                   StrengthIs(df_strength, Quote(i).symbol[2], 0 - Quote(i).changesPercentage.v)

\* C1 amended: the orientation law holds for the last quote of each symbol in
\* the input: if the last quote of an XXXUSD pair has the numeric change c, the
\* strength of XXX is c; if the last quote of a USDYYY pair has the numeric
\* change c, the strength of YYY is -c; and the run ends with the table shown.
C1_LastQuoteOriented ==
    (Finished /\ IsQuoteList) =>
        \A i \in 1..Len(data.recs) :
            /\ (Quote(i).symbol \in XxxUsd /\ IsNumeric(i) /\ IsLastOfSymbol(i)) =>
                   /\ TableShown
                   /\ StrengthIs(df_strength, Quote(i).symbol[1], Quote(i).changesPercentage.v)
            /\ (Quote(i).symbol \in UsdYyy /\ IsNumeric(i) /\ IsLastOfSymbol(i)) =>
                   /\ TableShown
                   /\ StrengthIs(df_strength, Quote(i).symbol[2], 0 - Quote(i).changesPercentage.v)

\* a finished run over a USDYYY quote with a non-zero change, quoted after an
\* earlier quote of an XXXUSD pair with a non-zero change
C1_Witness ==
    /\ TableShown
    /\ IsQuoteList
    /\ Len(data.recs) = 2
    /\ Quote(1).symbol \in XxxUsd /\ IsNumeric(1) /\ Quote(1).changesPercentage.v # 0
    /\ Quote(2).symbol \in UsdYyy /\ IsNumeric(2) /\ Quote(2).changesPercentage.v # 0
    /\ StrengthIs(df_strength, Quote(2).symbol[2], 0 - Quote(2).changesPercentage.v)

(* ---------------- C2 ---------------- *)
\* C2: whenever a ranked table is produced, every row's strength is greater
\* than or equal to the strength of the row after it.
C2_SortedDescending ==
    TableShown =>
        \A i \in 1..(Len(df_strength) - 1) :
            Geq(df_strength[i].Fuerza, df_strength[i + 1].Fuerza)

(* ---------------- C3 ---------------- *)
\* C3: whenever the input holds at least one basket pair, the output has USD
\* with strength exactly 0.0, whatever the change values are.
C3_UsdPivotPresent ==
    (Finished /\ IsQuoteList /\ HasBasketQuote) =>
        /\ TableShown
        /\ StrengthIs(df_strength, "USD", 0)

(* ---------------- C4 ---------------- *)
\* C4: a basket quote whose changesPercentage is null or missing gives its
\* currency the strength exactly 0.0, and the run raises no error.
C4_NullIsZero ==
    (Finished /\ IsQuoteList) =>
        \A i \in 1..Len(data.recs) :
            (Quote(i).symbol \in Basket /\ IsNull(i) /\ IsLastOfSymbol(i)) =>
                /\ TableShown
                /\ StrengthIs(df_strength, CurrencyOf(Quote(i).symbol), 0)

(* ---------------- C5 ---------------- *)
\* C5: a quote whose symbol is not in the basket adds no row, and the output
\* for a list equals the output for the list without its non-basket quotes.
C5_UnknownSymbolsIgnored ==
    (TableShown /\ IsQuoteList) =>
        /\ \A r \in 1..Len(df_strength) :
               \/ df_strength[r].Moneda = "USD"
               \/ \E s \in Basket : df_strength[r].Moneda = CurrencyOf(s)
        /\ show_currency_meter([data EXCEPT !.recs = RemoveNonBasket(data.recs)])
               = [outcome |-> "table", table |-> df_strength]

(* ---------------- C6 ---------------- *)
\* C6 as stated: for a list of basket quotes with numeric changes, several
\* quotes of one symbol allowed, the sum of the absolute strengths equals the
\* sum of the absolute changes of all the quotes.
C6_SumOfAllQuotes ==
    (pc = "done" /\ OnlyNumericBasketQuotes) =>
        SumAbsStrengths(df_strength) = SumAbsChanges(data.recs, 1..Len(data.recs))

\* C6 amended: for a list of basket quotes with numeric changes, the sum of
\* the absolute strengths equals the sum of the absolute changes of the last
\* quote of each symbol: each symbol contributes exactly once, USD 0.
C6_SumOfLastQuotes ==
    (Finished /\ OnlyNumericBasketQuotes) =>
        /\ TableShown
        /\ \A r \in 1..Len(df_strength) : df_strength[r].Fuerza.t = "num"
        /\ SumAbsStrengths(df_strength)
               = SumAbsChanges(data.recs, { i \in 1..Len(data.recs) : IsLastOfSymbol(i) })

\* a finished run over one symbol quoted twice with different non-zero changes
C6_Witness ==
    /\ TableShown
    /\ OnlyNumericBasketQuotes
    /\ Len(data.recs) = 2
    /\ Quote(1).symbol = Quote(2).symbol
    /\ Quote(1).changesPercentage.v # 0
    /\ Quote(2).changesPercentage.v # 0
    /\ Quote(1).changesPercentage.v # Quote(2).changesPercentage.v
    /\ SumAbsStrengths(df_strength) = Abs(Quote(2).changesPercentage.v)

(* ---------------- C7 ---------------- *)
\* C7: when the payload is an empty list, is not a list, or is a dict with an
\* 'Error Message' key, no score is computed, no chart or table is rendered,
\* and the run ends with an error message.
C7_BadPayloadNotComputed ==
    (Fetched /\ (data.kind # "list" \/ data.recs = <<>>)) =>
        /\ NothingComputed
        /\ pc \in {"check", "done"}
        /\ pc = "done" => ui[Len(ui)] \in {"error_api", "error_no_data"}
        /\ (pc = "done" /\ data.kind = "dict" /\ data.err) => ui[Len(ui)] = "error_api"

\* a finished run over an empty list
C7_Witness ==
    /\ pc = "done"
    /\ data.kind = "list"
    /\ data.recs = <<>>
    /\ ui[Len(ui)] = "error_no_data"

C9_OneRowPerCurrency ==
    (Finished /\ IsQuoteList /\ HasBasketQuote) =>
        /\ TableShown
        /\ { df_strength[r].Moneda : r \in 1..Len(df_strength) }
               = { CurrencyOf(Quote(i).symbol) :
                       i \in { j \in 1..Len(data.recs) : Quote(j).symbol \in Basket } }
                 \cup {"USD"}
        /\ \A r1, r2 \in 1..Len(df_strength) :
               df_strength[r1].Moneda = df_strength[r2].Moneda => r1 = r2

(* ---------------- C10 ---------------- *)
\* C10: every run ends in a rendered state, an error or warning message or
\* the chart and table, and never in an unhandled exception.
C10_AlwaysRendered ==
    /\ pc # "crashed"
    /\ pc = "done" =>
           ui[Len(ui)] \in {"error_api", "error_no_data", "warning_no_data", "table"}

====
